---- MODULE Spec2Model ----
(***************************************************************************)
(* eBay research tool: the persistence gateway (core/database_manager.py), *)
(* the page-by-page keyword search (services/ebay_scraper.py) and the      *)
(* search command that drives both (interfaces/cli_interface.py).          *)
(*                                                                         *)
(* Python values: an optional number is <<>> (None) or <<n>>; a string     *)
(* argument tested with `if s:` is "" when absent; an error text and the   *)
(* error_log are sequences of tokens, NL being the newline character.      *)
(***************************************************************************)
EXTENDS Integers, Sequences, FiniteSets, TLC

VARIABLES
    \* ---- storage (models/data_models.py) ----
    rows,          \* table ebay_search_results, in insertion order
    kwtab,         \* table keywords: keyword id -> [status, last_searched_at]
    jobs,          \* table search_history, job id = index
    clock,         \* datetime.utcnow(), in ticks
    call,          \* the last call of a direct caller and what it returned
    sessions,      \* per concurrent caller: its database session in save_search_results
    \* ---- EbayScraper instance ----
    playwright, browser, context,   \* handles held (TRUE) or None (FALSE)
    is_logged_in,
    max_pages,     \* config ebay.search.max_pages
    user_agent,    \* 0 is None, else the user agent string chosen
    username, password,   \* EBAY_USERNAME / EBAY_PASSWORD are set
    \* ---- one search_keyword call ----
    spc,           \* position in search_keyword
    current_page, max_retries, all_items,
    page_open,     \* a page handle is open (new_page done, close not yet)
    loads,         \* page loads (new_page + goto) of this call, in order
    exit_by,       \* the branch that ended the pagination loop
    outcome,       \* what the call gave its caller
    \* ---- the search command ----
    cpc,           \* position in search_keywords
    batch,         \* keywords returned by get_active_keywords (ids, in order)
    idx,           \* enumerate index i of the keyword being handled
    job_id,
    total_results,
    attempts,      \* per batch position: how the attempt on it ended
    login          \* the --login option

dbVars      == <<rows, kwtab, jobs, clock, call>>
browserVars == <<playwright, browser, context, is_logged_in, max_pages>>
searchVars  == <<spc, current_page, max_retries, all_items, page_open, loads,
                 exit_by, outcome>>
cliVars     == <<cpc, batch, idx, job_id, total_results, attempts>>
cfgVars     == <<username, password, login>>
vars        == <<dbVars, browserVars, searchVars, cliVars, user_agent, cfgVars,
                 sessions>>

----------------------------------------------------------------------------
(* Bounds of the model *)

MaxKeywords == 2      \* keywords in one batch
MaxPagesCfg == 2      \* largest configured max_pages
MaxRows     == 3      \* rows stored through direct gateway calls
MaxClock    == 2      \* clock ticks
MaxLogLen   == 3      \* tokens of error_log under direct gateway calls
MaxNodes    == 2      \* listing nodes on one result page

None == <<>>
Some(v) == <<v>>
NL == "\n"

KeywordIds == 1..MaxKeywords
KeywordText == <<"k1", "k2", "k3", "k4">>

\* Listing records as _extract_items_data returns them (item_id "" = key absent).
RecA == [item_id |-> "a", title |-> "t1"]
RecB == [item_id |-> "b", title |-> "t1"]
RecA2 == [item_id |-> "a", title |-> "t2"]
RecN == [item_id |-> "", title |-> "t1"]

\* Result lists handed to save_search_results by a direct caller.
ResultLists ==
    { <<>>, <<RecA>>, <<RecB>>, <<RecA2>>, <<RecN>>, <<RecA, RecB>>, <<RecA, RecA2>>,
      <<RecA2, RecB>>, <<RecB, RecB>>, <<RecA, RecN>>, <<RecA2, RecB, RecB>> }

Range(s) == { s[i] : i \in 1..Len(s) }

----------------------------------------------------------------------------
(* DatabaseManager.save_search_results *)

\* The existence query of the loop: a stored row with (keyword_id, item_id).
ExistingRow(stored, kid, item_id) ==
    \E r \in Range(stored) : r.keyword_id = kid /\ r.item_id = item_id

\* EbaySearchResult(...) as the loop builds it; search_job_id is never given.
NewRow(kid, e) ==
    [keyword_id |-> kid, item_id |-> e.item_id, title |-> e.title,
     search_job_id |-> None]

RECURSIVE PendingRowsUnchecked(_, _, _)
\* PendingRows without the existence query: every result with an item_id.
PendingRowsUnchecked(results, kid, stored) ==
    IF results = <<>> THEN <<>>
    ELSE LET e == Head(results)
         IN (IF e.item_id # "" THEN <<NewRow(kid, e)>> ELSE <<>>)
            \o PendingRowsUnchecked(Tail(results), kid, stored)

RECURSIVE PendingRows(_, _, _)
\* The list search_results after the loop. Every existence query runs against
\* the rows stored before the call: the new objects are only collected in the
\* local list and reach the session in the add_all that follows the loop.
PendingRows(results, kid, stored) ==
    IF results = <<>> THEN <<>>
    ELSE LET e == Head(results)
         IN (IF e.item_id # "" /\ ~ExistingRow(stored, kid, e.item_id)
                THEN <<NewRow(kid, e)>> ELSE <<>>)
            \o PendingRows(Tail(results), kid, stored)

\* rows after save_search_results(kid, results) commits.
SavedRows(stored, kid, results) ==
    IF results = <<>> THEN stored
    ELSE stored \o PendingRows(results, kid, stored)

\* its return value
SavedCount(stored, kid, results) ==
    IF results = <<>> THEN 0 ELSE Len(PendingRows(results, kid, stored))

\* keywords table after it: last_searched_at of the keyword, when it exists.
SavedKwtab(kt, kid, results, now) ==
    IF results = <<>> \/ kid \notin DOMAIN kt THEN kt
    ELSE [kt EXCEPT ![kid].last_searched_at = Some(now)]

----------------------------------------------------------------------------
(* DatabaseManager.start_search_job / update_search_job_status *)

Terminal == {"completed", "failed"}

NewJob(total_keywords, now) ==
    [total_keywords |-> total_keywords, processed_keywords |-> 0,
     successful_keywords |-> 0, failed_keywords |-> 0,
     status |-> "in_progress", start_time |-> Some(now), end_time |-> None,
     execution_time_seconds |-> None, error_log |-> <<>>]

\* `if status:` block
JobStatusSet(job, status, now) ==
    IF status = "" THEN job
    ELSE IF status \in Terminal
         THEN [job EXCEPT !.status = status,
                          !.end_time = Some(now),
                          !.execution_time_seconds =
                              IF job.start_time # None
                                 THEN Some(now - job.start_time[1])
                                 ELSE @]
         ELSE [job EXCEPT !.status = status]

\* JobErrorLogged with an assignment in place of the `+=`.
JobErrorOverwritten(job, error) ==
    IF error = <<>> THEN job ELSE [job EXCEPT !.error_log = error]

\* `if error:` block
JobErrorLogged(job, error) ==
    IF error = <<>> THEN job
    ELSE IF job.error_log # <<>>
         THEN [job EXCEPT !.error_log = @ \o <<NL>> \o error]
         ELSE [job EXCEPT !.error_log = error]

\* the three counters, each assigned when its argument is not None
JobCountersSet(job, processed, successful, failed) ==
    [job EXCEPT
        !.processed_keywords  = IF processed  # None THEN processed[1]  ELSE @,
        !.successful_keywords = IF successful # None THEN successful[1] ELSE @,
        !.failed_keywords     = IF failed     # None THEN failed[1]     ELSE @]

\* search_history after update_search_job_status(jid, ...) commits.
UpdatedJobs(js, jid, processed, successful, failed, status, error, now) ==
    IF jid \notin DOMAIN js THEN js
    ELSE [js EXCEPT ![jid] =
            JobErrorLogged(
                JobStatusSet(JobCountersSet(@, processed, successful, failed),
                             status, now),
                error)]

----------------------------------------------------------------------------
(* Direct callers of the gateway *)

Callers == {1, 2}
NoSession == [pc |-> "none"]

Idle == 
    /\ sessions = [c \in Callers |-> NoSession]
    /\ playwright = FALSE /\ browser = FALSE /\ context = FALSE
    /\ is_logged_in = FALSE /\ user_agent = 0
    /\ spc = "idle" /\ current_page = 0 /\ max_retries = 0 /\ all_items = <<>>
    /\ page_open = FALSE /\ loads = <<>> /\ exit_by = "" /\ outcome = [kind |-> "none"]
    /\ cpc = "idle" /\ idx = 0 /\ job_id = 0 /\ total_results = 0
    /\ attempts = <<>>

InitDb ==
    /\ rows = <<>>
    /\ kwtab = [k \in KeywordIds |-> [status |-> "active", last_searched_at |-> None]]
    /\ jobs = <<>>
    /\ clock = 0
    /\ call = [op |-> "none"]
    /\ max_pages = 1
    /\ batch = <<>>
    /\ username = FALSE /\ password = FALSE /\ login = FALSE
    /\ Idle

Tick ==
    /\ clock < MaxClock
    /\ clock' = clock + 1
    /\ UNCHANGED <<rows, kwtab, jobs, call, browserVars, searchVars, cliVars,
                   user_agent, cfgVars, sessions>>

SaveSearchResults(kid, results) ==
    /\ Len(SavedRows(rows, kid, results)) <= MaxRows
    /\ rows' = SavedRows(rows, kid, results)
    /\ kwtab' = SavedKwtab(kwtab, kid, results, clock)
    /\ call' = [op |-> "save", kid |-> kid, results |-> results,
                ret |-> SavedCount(rows, kid, results)]
    /\ UNCHANGED <<jobs, clock, browserVars, searchVars, cliVars, user_agent,
                   cfgVars, sessions>>

\* The direct caller creates one job: a call reads and writes the one row of
\* its job_id, so jobs do not interact.
StartSearchJob(total) ==
    /\ jobs = <<>>
    /\ jobs' = Append(jobs, NewJob(total, clock))
    /\ call' = [op |-> "start", ret |-> Len(jobs) + 1]
    /\ UNCHANGED <<rows, kwtab, clock, browserVars, searchVars, cliVars,
                   user_agent, cfgVars, sessions>>

\* (processed, successful, failed) as direct callers pass them
CounterArgs == { <<None, None, None>>, <<Some(1), Some(1), None>> }
Statuses == {"", "in_progress", "completed", "failed"}
Errors == {<<>>, <<"e1">>, <<"e2">>}

UpdateSearchJobStatus(jid, processed, successful, failed, status, error) ==
    /\ jid \in DOMAIN jobs =>
          Len(JobErrorLogged(jobs[jid], error).error_log) <= MaxLogLen
    /\ jobs' = UpdatedJobs(jobs, jid, processed, successful, failed, status,
                           error, clock)
    /\ call' = [op |-> "update", job |-> jid, status |-> status, error |-> error]
    /\ UNCHANGED <<rows, kwtab, clock, browserVars, searchVars, cliVars,
                   user_agent, cfgVars, sessions>>

NextStore ==
    \E kid \in {1, 2}, results \in ResultLists : SaveSearchResults(kid, results)

SpecStore == InitDb /\ [][NextStore]_vars

----------------------------------------------------------------------------
(* save_search_results called by concurrent callers, each with the session *)
(* of its own thread (scoped_session)                                      *)

\* CommittedRows under a uniqueness constraint on (keyword_id, item_id): the
\* commit fails and is rolled back when a pending pair is stored already.
CommittedRowsUnique(stored, pending) ==
    IF \E r \in Range(pending) : ExistingRow(stored, r.keyword_id, r.item_id)
       THEN stored
       ELSE stored \o pending

\* The table after session.commit() of a session whose add_all gave it
\* `pending`: the INSERTs are subject to no constraint of the schema.
CommittedRows(stored, pending) == stored \o pending

\* Keyword ids of concurrent callers: one with a row in keywords, one without.
ConcurrentKids == {1, MaxKeywords + 1}
ConcurrentLists == { <<RecA>>, <<RecA, RecB>> }

\* What the existence queries of a session read: the rows committed when the
\* query runs, or the rows committed when the session made its first read
\* (a backend with snapshot reads). db_url selects the backend.
Views == {"committed", "snapshot"}

\* The session has flushed its UPDATE of the keyword row and not yet
\* committed: autoflush runs it before the first existence query.
HoldsKeywordRow(s) == s.pc = "checked" /\ s.kid \in DOMAIN kwtab

\* Lines 175-182: a non-empty list opens a session, reads the keyword and
\* assigns last_searched_at.
SaveOpen(c, kid, results) ==
    /\ sessions[c].pc \in {"none", "committed"}
    /\ results # <<>>
    /\ sessions' = [sessions EXCEPT ![c] =
                       [pc |-> "opened", kid |-> kid, results |-> results,
                        snapshot |-> rows, at |-> clock, seen |-> 0,
                        pending |-> <<>>]]
    /\ UNCHANGED <<rows, kwtab, jobs, clock, call, browserVars, searchVars,
                   cliVars, user_agent, cfgVars>>

\* Lines 185-212: the loop with its existence queries. The UPDATE of the
\* keyword row waits while another session holds that row. `seen` is the
\* number of rows committed when the queries run.
SaveQueries(c, view) ==
    /\ sessions[c].pc = "opened"
    /\ \A d \in Callers \ {c} :
          ~(HoldsKeywordRow(sessions[d]) /\ sessions[d].kid = sessions[c].kid)
    /\ LET s == sessions[c]
           read == IF view = "snapshot" THEN s.snapshot ELSE rows
       IN sessions' = [sessions EXCEPT
                          ![c].pc = "checked",
                          ![c].seen = Len(rows),
                          ![c].pending = PendingRows(s.results, s.kid, read)]
    /\ UNCHANGED <<rows, kwtab, jobs, clock, call, browserVars, searchVars,
                   cliVars, user_agent, cfgVars>>

\* Lines 214-217 and the commit of session_scope.
SaveCommit(c) ==
    /\ sessions[c].pc = "checked"
    /\ Len(rows) + Len(sessions[c].pending) <= MaxRows
    /\ rows' = CommittedRows(rows, sessions[c].pending)
    /\ kwtab' = SavedKwtab(kwtab, sessions[c].kid, sessions[c].results, sessions[c].at)
    /\ sessions' = [sessions EXCEPT ![c].pc = "committed"]
    /\ call' = [op |-> "commit", caller |-> c, ret |-> Len(sessions[c].pending)]
    /\ UNCHANGED <<jobs, clock, browserVars, searchVars, cliVars, user_agent,
                   cfgVars>>

NextConcurrent ==
    \/ \E c \in Callers, kid \in ConcurrentKids, results \in ConcurrentLists :
            SaveOpen(c, kid, results)
    \/ \E c \in Callers, view \in Views : SaveQueries(c, view)
    \/ \E c \in Callers : SaveCommit(c)

SpecConcurrent == InitDb /\ [][NextConcurrent]_vars

NextJob ==
    \/ \E total \in 1..2 : StartSearchJob(total)
    \/ \E jid \in DOMAIN jobs, c \in CounterArgs, st \in Statuses, e \in Errors :
            UpdateSearchJobStatus(jid, c[1], c[2], c[3], st, e)
    \/ UpdateSearchJobStatus(Len(jobs) + 1, Some(1), None, None, "completed", <<"e1">>)
    \/ Tick

SpecJob == InitDb /\ [][NextJob]_vars

----------------------------------------------------------------------------
(* EbayScraper.start_browser / close_browser *)

Handles == [playwright |-> playwright, browser |-> browser, context |-> context,
            is_logged_in |-> is_logged_in]

\* close_browser: the three closes run in order inside one try; the one named
\* by cf raises (when its handle is held) and the rest of the body is skipped.
ClosedBrowser(h, cf) ==
    LET h1 == IF h.context /\ cf # "context" THEN [h EXCEPT !.context = FALSE] ELSE h
        stop1 == h.context /\ cf = "context"
        h2 == IF ~stop1 /\ h1.browser /\ cf # "browser"
                 THEN [h1 EXCEPT !.browser = FALSE] ELSE h1
        stop2 == stop1 \/ (h1.browser /\ cf = "browser")
        h3 == IF ~stop2 /\ h2.playwright /\ cf # "playwright"
                 THEN [h2 EXCEPT !.playwright = FALSE] ELSE h2
        stop3 == stop2 \/ (h2.playwright /\ cf = "playwright")
    IN IF stop3 THEN h3 ELSE [h3 EXCEPT !.is_logged_in = FALSE]

StartFailures == {"none", "playwright", "launch", "context", "configure"}
CloseFailures == {"none", "context", "browser", "playwright"}

\* StartedBrowser without the early return of a started session.
StartedBrowserAlways(h, sf, cf) ==
    IF sf = "none"
         THEN [h EXCEPT !.playwright = TRUE, !.browser = TRUE, !.context = TRUE]
    ELSE IF sf = "playwright" THEN ClosedBrowser(h, cf)
    ELSE IF sf = "launch" THEN ClosedBrowser([h EXCEPT !.playwright = TRUE], cf)
    ELSE IF sf = "context"
         THEN ClosedBrowser([h EXCEPT !.playwright = TRUE, !.browser = TRUE], cf)
    ELSE ClosedBrowser([h EXCEPT !.playwright = TRUE, !.browser = TRUE,
                                 !.context = TRUE], cf)

\* start_browser: sf names the step that raises; the handles assigned before it
\* stay assigned and the except block calls close_browser.
StartedBrowser(h, sf, cf) ==
    IF h.browser /\ h.context THEN h
    ELSE IF sf = "none"
         THEN [h EXCEPT !.playwright = TRUE, !.browser = TRUE, !.context = TRUE]
    ELSE IF sf = "playwright" THEN ClosedBrowser(h, cf)
    ELSE IF sf = "launch" THEN ClosedBrowser([h EXCEPT !.playwright = TRUE], cf)
    ELSE IF sf = "context"
         THEN ClosedBrowser([h EXCEPT !.playwright = TRUE, !.browser = TRUE], cf)
    ELSE ClosedBrowser([h EXCEPT !.playwright = TRUE, !.browser = TRUE,
                                 !.context = TRUE], cf)

\* its return value
StartBrowserOk(h, sf) == (h.browser /\ h.context) \/ sf = "none"

SetHandles(h) ==
    /\ playwright' = h.playwright
    /\ browser' = h.browser
    /\ context' = h.context
    /\ is_logged_in' = h.is_logged_in

\* The user agents _get_random_user_agent can return.
UserAgents == {1, 2}

\* self.user_agent after start_browser: assigned after the launch and before
\* new_context, close_browser does not reset it.
StartedUserAgent(h, sf, agent, ua) ==
    IF h.browser /\ h.context THEN agent
    ELSE IF sf \in {"playwright", "launch"} THEN agent
    ELSE ua

\* Whether the start_browser call got a browser out of chromium.launch.
Launches(h, sf) == ~(h.browser /\ h.context) /\ sf \notin {"playwright", "launch"}

----------------------------------------------------------------------------
(* EbayScraper.login *)

\* How the try block of one login attempt ends:
\*   accepted   the page left the sign-in URL
\*   rejected   the page is still on the sign-in URL
\*   error      a page operation raised
LoginResults == {"accepted", "rejected", "error"}

\* One execution of the body of login, up to its except block. page.close()
\* is called on the accepted and the rejected path only: a page whose
\* operation raised is left open (left_open).
LoginAttempt(h, agent, u, p, sf, cf, ua, a) ==
    IF ~u \/ ~p
       THEN [ok |-> FALSE, raised |-> FALSE, h |-> h, user_agent |-> agent,
             pages |-> 0, tries |-> 0, launched |-> FALSE, left_open |-> 0]
    ELSE IF h.is_logged_in
       THEN [ok |-> TRUE, raised |-> FALSE, h |-> h, user_agent |-> agent,
             pages |-> 0, tries |-> 0, launched |-> FALSE, left_open |-> 0]
    ELSE IF ~StartBrowserOk(h, sf)
       THEN [ok |-> FALSE, raised |-> FALSE, h |-> StartedBrowser(h, sf, cf),
             user_agent |-> StartedUserAgent(h, sf, agent, ua),
             pages |-> 0, tries |-> 0, launched |-> Launches(h, sf), left_open |-> 0]
    ELSE LET h1 == StartedBrowser(h, sf, cf)
         IN [ok |-> a = "accepted", raised |-> a = "error",
             h |-> IF a = "accepted" THEN [h1 EXCEPT !.is_logged_in = TRUE] ELSE h1,
             user_agent |-> StartedUserAgent(h, sf, agent, ua),
             pages |-> 1, tries |-> 1, launched |-> Launches(h, sf),
             left_open |-> IF a = "error" THEN 1 ELSE 0]

\* LoggedIn without the retry: an attempt that raised returns False.
LoggedInOnce(r1, u, p, sf, cf, ua, a2) ==
    [r1 EXCEPT !.ok = r1.ok /\ ~r1.raised, !.raised = FALSE]

\* time.sleep(5) of the except block: once, before the retry.
LoginSleeps(r1) == IF r1.raised THEN 1 ELSE 0

\* The except block of login, r1 being what the first execution of the body
\* gave: an attempt that raised is followed by login(retry_on_failure=False),
\* whose own exception returns False.
LoggedIn(r1, u, p, sf, cf, ua, a2) ==
    IF ~r1.raised THEN r1
    ELSE LET r2 == LoginAttempt(r1.h, r1.user_agent, u, p, sf, cf, ua, a2)
         IN [ok |-> r2.ok /\ ~r2.raised,
             raised |-> FALSE,
             h |-> r2.h,
             user_agent |-> r2.user_agent,
             pages |-> r1.pages + r2.pages,
             tries |-> r1.tries + r2.tries,
             launched |-> r1.launched \/ r2.launched,
             left_open |-> r1.left_open + r2.left_open]

----------------------------------------------------------------------------
(* A caller that drives the browser session of one EbayScraper directly *)

InitBrowser ==
    /\ rows = <<>>
    /\ kwtab = [k \in KeywordIds |-> [status |-> "active", last_searched_at |-> None]]
    /\ jobs = <<>>
    /\ clock = 0
    /\ call = [op |-> "none"]
    /\ max_pages = 1
    /\ batch = <<>>
    /\ username \in BOOLEAN /\ password \in BOOLEAN /\ login = FALSE
    /\ Idle

StartBrowser(sf, cf, ua) ==
    /\ SetHandles(StartedBrowser(Handles, sf, cf))
    /\ user_agent' = StartedUserAgent(Handles, sf, user_agent, ua)
    /\ call' = [op |-> "start_browser", ret |-> StartBrowserOk(Handles, sf),
                launched |-> Launches(Handles, sf), failed |-> sf,
                close_failed |-> cf]
    /\ UNCHANGED <<rows, kwtab, jobs, clock, max_pages, searchVars, cliVars, cfgVars, sessions>>

CloseBrowser(cf) ==
    /\ SetHandles(ClosedBrowser(Handles, cf))
    /\ call' = [op |-> "close_browser", closes |-> 1, close_failed |-> cf]
    /\ UNCHANGED <<rows, kwtab, jobs, clock, max_pages, searchVars, cliVars,
                   user_agent, cfgVars, sessions>>

Login(sf, cf, ua, a1, a2) ==
    /\ \E r1 \in {LoginAttempt(Handles, user_agent, username, password, sf, cf, ua, a1)} :
       \E r \in {LoggedIn(r1, username, password, sf, cf, ua, a2)} :
          /\ SetHandles(r.h)
          /\ user_agent' = r.user_agent
          /\ call' = [op |-> "login", ret |-> r.ok, raised |-> r.raised,
                      pages |-> r.pages, tries |-> r.tries, launched |-> r.launched,
                      left_open |-> r.left_open, slept |-> LoginSleeps(r1),
                      first |-> a1, second |-> a2]
    /\ UNCHANGED <<rows, kwtab, jobs, clock, max_pages, searchVars, cliVars, cfgVars, sessions>>

\* `with EbayScraper(config) as scraper:` of a direct caller: __enter__
WithEnter(sf, cf, ua) ==
    /\ cpc = "idle"
    /\ SetHandles(StartedBrowser(Handles, sf, cf))
    /\ user_agent' = StartedUserAgent(Handles, sf, user_agent, ua)
    /\ call' = [op |-> "enter"]
    /\ cpc' = "with"
    /\ UNCHANGED <<rows, kwtab, jobs, clock, max_pages, searchVars, batch, idx,
                   job_id, total_results, attempts, cfgVars, sessions>>

\* __exit__: the block is left on its success path or by an exception (exc).
WithExit(exc, cf) ==
    /\ cpc = "with"
    /\ SetHandles(ClosedBrowser(Handles, cf))
    /\ call' = [op |-> "exit", exc |-> exc, closes |-> 1, close_failed |-> cf]
    /\ cpc' = "idle"
    /\ UNCHANGED <<rows, kwtab, jobs, clock, max_pages, searchVars, batch, idx,
                   job_id, total_results, attempts, user_agent, cfgVars, sessions>>

NextBrowser ==
    \/ \E sf \in StartFailures, cf \in CloseFailures, ua \in UserAgents :
            StartBrowser(sf, cf, ua)
    \/ \E cf \in CloseFailures : CloseBrowser(cf)
    \/ \E sf \in StartFailures, cf \in CloseFailures, ua \in UserAgents,
          a1 \in LoginResults, a2 \in LoginResults : Login(sf, cf, ua, a1, a2)
    \/ \E sf \in StartFailures, cf \in CloseFailures, ua \in UserAgents :
            WithEnter(sf, cf, ua)
    \/ \E exc \in BOOLEAN, cf \in CloseFailures : WithExit(exc, cf)

SpecBrowser == InitBrowser /\ [][NextBrowser]_vars

----------------------------------------------------------------------------
(* EbayScraper._extract_items_data *)

\* A listing node `li.s-item` of a result page:
\*   ad     it carries the sponsored tag block
\*   link   what `.s-item__link` gives: "none" when the node has no link,
\*          "nohref" when the link has no href attribute, "other" when the href
\*          does not match /itm/<digits>, else the digits matched
\*   title  the text of `.s-item__title`, or "raises" when reading it
\*          (inner_text) raises
ItemIds == {"a", "b"}
Links == {"none", "nohref", "other"} \cup ItemIds
Titles == {"t1", "t2", "raises"}
ListingNodes == [ad : BOOLEAN, link : Links, title : Titles]

PageNodes == UNION { [1..n -> ListingNodes] : n \in 0..MaxNodes }

\* item_data at results.append: the key item_id is only set on a match ("" is
\* the absent key).
ItemData(node) ==
    [item_id |-> IF node.link \in ItemIds THEN node.link ELSE "", title |-> node.title]

\* Whether the loop body reaches results.append for the node: an ad is skipped
\* by `continue`; re.search on a href of None raises, and so does a field read
\* that fails, and the one handler around the whole body turns either into
\* `continue`.
Appended(node) == ~node.ad /\ node.link # "nohref" /\ node.title # "raises"

RECURSIVE ExtractItemsData(_)
\* _extract_items_data over the listing nodes of a page, in document order
ExtractItemsData(nodes) ==
    IF nodes = <<>> THEN <<>>
    ELSE (IF Appended(Head(nodes)) THEN <<ItemData(Head(nodes))>> ELSE <<>>)
         \o ExtractItemsData(Tail(nodes))

\* The locators _extract_items_data runs on the page object. `container` says
\* whether the page holds the results list `ul.srp-results.srp-list`; the code
\* never looks for it and always runs the one page-wide query.
PageQueries(container) == <<"li.s-item">>

\* A caller that hands one page to _extract_items_data; `nodes` are the
\* elements the page-wide query `li.s-item` matches, in document order.
ExtractPage(container, nodes) ==
    /\ call' = [op |-> "extract", container |-> container,
                queries |-> PageQueries(container), nodes |-> nodes,
                ret |-> ExtractItemsData(nodes)]
    /\ UNCHANGED <<rows, kwtab, jobs, clock, browserVars, searchVars, cliVars,
                   user_agent, cfgVars, sessions>>

NextExtract == \E container \in BOOLEAN, nodes \in PageNodes : ExtractPage(container, nodes)

SpecExtract == InitDb /\ [][NextExtract]_vars

----------------------------------------------------------------------------
(* EbayScraper.search_keyword *)

\* max_retries = 3 of the pagination loop
MaxRetries == 3

\* What _extract_items_data can return for result page p when it finds items.
\* The listing of item b appears on page 1 and again on page 2.
PageListings(p) ==
    IF p = 1 THEN { <<RecA, RecB>> } ELSE IF p = 2 THEN { <<RecB>> } ELSE { <<RecA2>> }

\* How the try block of one loop iteration ends:
\*   timeout      goto / wait_for_selector / extraction raises PlaywrightTimeoutError
\*   error        they raise any other exception
\*   zero         the page yields no items
\*   items_next   items, and an enabled next control
\*   items_last   items, and no enabled next control
\*   items_error  items, and the query for the next control raises
PageResults == {"timeout", "error", "zero", "items_next", "items_last", "items_error"}
WithItems == {"items_next", "items_last", "items_error"}

\* all_items.extend(items)
Extended(items_so_far, items) == items_so_far \o items

\* RetriesLeft without the decrement.
RetriesKept(retries) == retries

\* max_retries -= 1 in the timeout handler
RetriesLeft(retries) == retries - 1

\* The timeout handler retries the same page (continue) while max_retries > 0.
TimeoutRetried(retries) == retries > 0

\* Breaks without the break on a page with no items.
BreaksExceptOnZero(result, retries) ==
    \/ result \in {"error", "items_last", "items_error"}
    \/ result = "timeout" /\ ~TimeoutRetried(retries)

\* Breaks without the break of the handler of other exceptions.
BreaksExceptOnError(result, retries) ==
    \/ result \in {"zero", "items_last", "items_error"}
    \/ result = "timeout" /\ ~TimeoutRetried(retries)

\* Whether the iteration leaves the while loop (break), before the finally.
Breaks(result, retries) ==
    \/ result \in {"error", "zero", "items_last", "items_error"}
    \/ result = "timeout" /\ ~TimeoutRetried(retries)

\* Whether the iteration runs time.sleep(delay): the sleep is the last
\* statement of the inner try, reached with items and an enabled next control.
Waits(result) == result = "items_next"

\* The branch that ended the loop.
ExitOf(result) ==
    IF result = "items_last" THEN "nonext"
    ELSE IF result = "items_error" THEN "error"
    ELSE result

Returned(value) == [kind |-> "returned", value |-> value]

\* Entry of search_keyword up to `all_items = []`: a browser that is not up is
\* started, and a failed start returns [].
SearchBegin(sf, cf, ua) ==
    /\ spc \in {"idle", "returned"}
    /\ LET up == browser /\ context
           h  == IF up THEN Handles ELSE StartedBrowser(Handles, sf, cf)
           ok == up \/ StartBrowserOk(Handles, sf)
       IN /\ SetHandles(h)
          /\ user_agent' = IF up THEN user_agent
                                 ELSE StartedUserAgent(Handles, sf, user_agent, ua)
          /\ all_items' = <<>>
          /\ loads' = <<>>
          /\ page_open' = page_open
          /\ IF ok
                THEN /\ spc' = "loop"
                     /\ current_page' = 1
                     /\ max_retries' = MaxRetries
                     /\ exit_by' = ""
                     /\ outcome' = [kind |-> "none"]
                ELSE /\ spc' = "returned"
                     /\ current_page' = 0
                     /\ max_retries' = 0
                     /\ exit_by' = "nobrowser"
                     /\ outcome' = Returned(<<>>)
    /\ UNCHANGED max_pages

\* `while current_page <= self.max_pages` and context.new_page(); a new_page
\* that raises is caught by the loop's outer handler, which breaks.
LoopHead(new_page_fails) ==
    /\ spc = "loop"
    /\ IF current_page > max_pages
          THEN /\ spc' = "returned"
               /\ exit_by' = "maxpages"
               /\ outcome' = Returned(all_items)
               /\ page_open' = page_open
       ELSE IF new_page_fails
          THEN /\ spc' = "returned"
               /\ exit_by' = "newpage_error"
               /\ outcome' = Returned(all_items)
               /\ page_open' = page_open
          ELSE /\ spc' = "page"
               /\ page_open' = TRUE
               /\ UNCHANGED <<exit_by, outcome>>
    /\ UNCHANGED <<current_page, max_retries, all_items, loads, browserVars,
                   user_agent>>

\* One iteration from page.goto to the finally: the page is loaded, its items
\* are extracted, the handlers run, page.close() runs (and may raise, which the
\* outer handler turns into a break), and current_page advances.
ProcessPage(result, items, close_fails) ==
    /\ spc = "page"
    /\ LET got   == IF result \in WithItems THEN items ELSE <<>>
           items1 == IF result \in WithItems THEN Extended(all_items, got)
                                             ELSE all_items
           brk   == Breaks(result, max_retries)
           retry == result = "timeout" /\ TimeoutRetried(max_retries)
       IN /\ loads' = Append(loads, [page |-> current_page, result |-> result,
                                     items |-> got, waited |-> Waits(result)])
          /\ all_items' = items1
          /\ max_retries' = IF retry THEN RetriesLeft(max_retries) ELSE max_retries
          /\ page_open' = close_fails
          /\ IF brk \/ close_fails
                THEN /\ spc' = "returned"
                     /\ exit_by' = IF brk THEN ExitOf(result) ELSE "close_error"
                     /\ outcome' = Returned(items1)
                     /\ current_page' = current_page
                ELSE /\ spc' = "loop"
                     /\ current_page' = IF retry THEN current_page
                                                 ELSE current_page + 1
                     /\ UNCHANGED <<exit_by, outcome>>
    /\ UNCHANGED <<browserVars, user_agent>>

SearchStep ==
    \/ \E f \in BOOLEAN : LoopHead(f)
    \/ \E result \in PageResults, cf \in BOOLEAN :
         \E items \in (IF result \in WithItems THEN PageListings(current_page)
                                                ELSE {<<>>}) :
            ProcessPage(result, items, cf)

\* A caller that uses the scraper directly.
InitScraper ==
    /\ rows = <<>>
    /\ kwtab = [k \in KeywordIds |-> [status |-> "active", last_searched_at |-> None]]
    /\ jobs = <<>>
    /\ clock = 0
    /\ call = [op |-> "none"]
    /\ max_pages \in 1..MaxPagesCfg
    /\ batch = <<>>
    /\ username = FALSE /\ password = FALSE /\ login = FALSE
    /\ Idle

SearchKeyword ==
    /\ \E sf \in StartFailures, cf \in CloseFailures, ua \in UserAgents :
            SearchBegin(sf, cf, ua)
    /\ UNCHANGED <<dbVars, cliVars, cfgVars, sessions>>

SearchRun ==
    /\ SearchStep
    /\ UNCHANGED <<dbVars, cliVars, cfgVars, sessions>>

NextScraper == SearchKeyword \/ SearchRun

SpecScraper == InitScraper /\ [][NextScraper]_vars

\* search_keyword runs on one thread: a call that has begun goes on with its
\* next statement.
SpecScraperFair == SpecScraper /\ WF_vars(SearchRun)

----------------------------------------------------------------------------
(* A caller that logs in and searches with one EbayScraper *)

InitSession ==
    /\ rows = <<>>
    /\ kwtab = [k \in KeywordIds |-> [status |-> "active", last_searched_at |-> None]]
    /\ jobs = <<>>
    /\ clock = 0
    /\ call = [op |-> "none"]
    /\ max_pages = 1
    /\ batch = <<>>
    /\ username = TRUE /\ password = TRUE /\ login = FALSE
    /\ Idle

\* The failures of the session's environment in the model.
SessionStartFailures == {"none", "launch"}
SessionCloseFailures == {"none"}
SessionUserAgents == {1}

\* login() between two search_keyword calls
SessionLogin ==
    /\ spc \in {"idle", "returned"}
    /\ \E sf \in SessionStartFailures, cf \in SessionCloseFailures, ua \in SessionUserAgents,
          a1 \in LoginResults, a2 \in LoginResults : Login(sf, cf, ua, a1, a2)

SessionSearch ==
    /\ \E sf \in SessionStartFailures, cf \in SessionCloseFailures, ua \in SessionUserAgents :
            SearchBegin(sf, cf, ua)
    /\ UNCHANGED <<dbVars, cliVars, cfgVars, sessions>>

SessionClose ==
    /\ spc \in {"idle", "returned"}
    /\ \E cf \in SessionCloseFailures : CloseBrowser(cf)

NextSession == SessionLogin \/ SessionSearch \/ SearchRun \/ SessionClose

SpecSession == InitSession /\ [][NextSession]_vars

----------------------------------------------------------------------------
(* search_keywords: the search command *)

\* The update after a keyword whose results were saved.
SuccessUpdate(js, jid, i, now) ==
    UpdatedJobs(js, jid, Some(i + 1), Some(i + 1), None, "in_progress", <<>>, now)

\* The update of the except block; failed is (i+1 - (i+1-1)).
FailureUpdate(js, jid, i, error, now) ==
    UpdatedJobs(js, jid, Some(i + 1), None, Some((i + 1) - ((i + 1) - 1)),
                "in_progress", error, now)

\* The final update, after the loop.
FinalUpdate(js, jid, now) ==
    UpdatedJobs(js, jid, None, None, None, "completed", <<>>, now)

\* f"キーワード '{keyword.keyword}': {str(e)}"
ErrorText(kid, message) == <<KeywordText[kid], message>>

\* Every load of the call ended in a navigation timeout.
AllTimeouts == loads # <<>> /\ \A n \in DOMAIN loads : loads[n].result = "timeout"

ResetSearch ==
    /\ spc' = "idle" /\ current_page' = 0 /\ max_retries' = 0 /\ all_items' = <<>>
    /\ loads' = <<>> /\ exit_by' = "" /\ outcome' = [kind |-> "none"]
    /\ page_open' = page_open

Init ==
    /\ rows = <<>>
    /\ kwtab = [k \in KeywordIds |-> [status |-> "active", last_searched_at |-> None]]
    /\ jobs = <<>>
    /\ clock = 0
    /\ call = [op |-> "none"]
    /\ max_pages \in 1..MaxPagesCfg
    /\ \E n \in 1..MaxKeywords : batch = [k \in 1..n |-> k]
    /\ username = FALSE /\ password = FALSE /\ login = FALSE
    /\ Idle

\* ProceedsAfterLogin of a command that gives up when login() returns False.
ProceedsOnlyLoggedIn(ok) == ok

\* The command goes on to the batch whatever scraper.login() returned.
ProceedsAfterLogin(ok) == TRUE

\* `with EbayScraper(config) as scraper`: __enter__ starts the browser.
CliEnter(sf, cf, ua) ==
    /\ cpc = "idle"
    /\ SetHandles(StartedBrowser(Handles, sf, cf))
    /\ user_agent' = StartedUserAgent(Handles, sf, user_agent, ua)
    /\ cpc' = "entered"
    /\ UNCHANGED <<dbVars, max_pages, searchVars, batch, idx, job_id,
                   total_results, attempts, cfgVars, sessions>>

\* The optional `if scraper.login()` and start_search_job(len(keywords)).
CliBegin(sf, cf, ua, a1, a2) ==
    /\ cpc = "entered"
    /\ \E r1 \in {LoginAttempt(Handles, user_agent, username, password, sf, cf, ua, a1)} :
       \E r \in {LoggedIn(r1, username, password, sf, cf, ua, a2)} :
       \E go \in {~login \/ ProceedsAfterLogin(r.ok)} :
          /\ SetHandles(IF login THEN r.h ELSE Handles)
          /\ user_agent' = IF login THEN r.user_agent ELSE user_agent
          /\ call' = IF login
                        THEN [op |-> "login", ret |-> r.ok, raised |-> r.raised,
                              pages |-> r.pages, tries |-> r.tries,
                              launched |-> r.launched, left_open |-> r.left_open,
                              slept |-> LoginSleeps(r1), first |-> a1,
                              second |-> a2]
                        ELSE call
          /\ jobs' = IF go THEN Append(jobs, NewJob(Len(batch), clock)) ELSE jobs
          /\ job_id' = IF go THEN Len(jobs) + 1 ELSE job_id
          /\ cpc' = IF go THEN "loop" ELSE "exited"
    /\ idx' = 0
    /\ total_results' = 0
    /\ UNCHANGED <<rows, kwtab, clock, max_pages, searchVars, batch, attempts, cfgVars, sessions>>

\* results = scraper.search_keyword(keyword.keyword), up to its first page
CliSearch(sf, cf, ua) ==
    /\ cpc = "loop"
    /\ idx < Len(batch)
    /\ SearchBegin(sf, cf, ua)
    /\ cpc' = "searching"
    /\ UNCHANGED <<dbVars, batch, idx, job_id, total_results, attempts, cfgVars, sessions>>

\* The rest of the loop body, once search_keyword has returned or raised: the
\* try block (save, then the success update), and the except block when one of
\* them raises. An exception of the except block's own update leaves the
\* command through the `with` block, which closes the browser.
CliHandle(save_fails, update_fails, handler_fails, cf) ==
    /\ cpc = "searching"
    /\ spc = "returned"
    /\ LET kid     == batch[idx + 1]
           raised  == outcome.kind = "raised"
           results == IF raised THEN <<>> ELSE outcome.value
           saving  == ~raised /\ results # <<>>
           saved   == saving /\ ~save_fails
           updated == saved /\ ~update_fails
           exc     == raised \/ (saving /\ (save_fails \/ update_fails))
           message == "error"
           jobs1   == IF updated THEN SuccessUpdate(jobs, job_id, idx, clock) ELSE jobs
           jobs2   == IF exc /\ ~handler_fails
                         THEN FailureUpdate(jobs1, job_id, idx,
                                            ErrorText(kid, message), clock)
                         ELSE jobs1
           abort   == exc /\ handler_fails
       IN /\ rows' = IF saved THEN SavedRows(rows, kid, results) ELSE rows
          /\ kwtab' = IF saved THEN SavedKwtab(kwtab, kid, results, clock) ELSE kwtab
          /\ total_results' = IF saved THEN total_results + SavedCount(rows, kid, results)
                                       ELSE total_results
          /\ jobs' = jobs2
          /\ attempts' = Append(attempts,
                [result |-> IF exc THEN "failed"
                            ELSE IF saving THEN "success" ELSE "empty",
                 transport_exhausted |-> (exit_by = "timeout" /\ AllTimeouts)])
          /\ IF abort
                THEN /\ cpc' = "aborted"
                     /\ idx' = idx
                     /\ SetHandles(ClosedBrowser(Handles, cf))
                ELSE /\ cpc' = "loop"
                     /\ idx' = idx + 1
                     /\ UNCHANGED <<playwright, browser, context, is_logged_in>>
    /\ ResetSearch
    /\ UNCHANGED <<clock, call, max_pages, batch, job_id, user_agent, cfgVars, sessions>>

\* DataExporter._get_results_from_db(job_id=jid): the stored rows whose
\* search_job_id is jid (a job id is never 0, so the filter applies).
ExportedRows(stored, jid) ==
    SelectSeq(stored, LAMBDA r : r.search_job_id = Some(jid))

\* After the loop: the job is set to completed, the `with` block is left, and
\* when total_results > 0 the results of the job are exported.
CliFinish(update_fails, cf) ==
    /\ cpc = "loop"
    /\ idx = Len(batch)
    /\ jobs' = IF update_fails THEN jobs ELSE FinalUpdate(jobs, job_id, clock)
    /\ cpc' = IF update_fails THEN "aborted" ELSE "done"
    /\ SetHandles(ClosedBrowser(Handles, cf))
    /\ call' = IF ~update_fails /\ total_results > 0
                  THEN [op |-> "export", job_id |-> job_id,
                        ret |-> ExportedRows(rows, job_id)]
                  ELSE call
    /\ UNCHANGED <<rows, kwtab, clock, max_pages, searchVars, batch, idx,
                   job_id, total_results, attempts, user_agent, cfgVars, sessions>>

\* The failures the search command's environment produces in the model, and
\* the user agent it draws.
CliStartFailures == {"none", "context"}
CliCloseFailures == {"none"}
CliUserAgents == {1}

Next ==
    \/ \E sf \in CliStartFailures, cf \in CliCloseFailures, ua \in CliUserAgents :
            CliEnter(sf, cf, ua)
    \/ \E sf \in CliStartFailures, cf \in CliCloseFailures, ua \in CliUserAgents,
          a1 \in LoginResults, a2 \in LoginResults : CliBegin(sf, cf, ua, a1, a2)
    \/ \E sf \in CliStartFailures, cf \in CliCloseFailures, ua \in CliUserAgents :
            CliSearch(sf, cf, ua)
    \/ SearchRun
    \/ \E a \in BOOLEAN, b \in BOOLEAN, c \in BOOLEAN, cf \in CliCloseFailures :
            CliHandle(a, b, c, cf)
    \/ \E f \in BOOLEAN, cf \in CliCloseFailures : CliFinish(f, cf)

Spec == Init /\ [][Next]_vars

\* The command run with --login, every combination of credentials set or not.
InitLogin ==
    /\ rows = <<>>
    /\ kwtab = [k \in KeywordIds |-> [status |-> "active", last_searched_at |-> None]]
    /\ jobs = <<>>
    /\ clock = 0
    /\ call = [op |-> "none"]
    /\ max_pages = 1
    /\ \E n \in 1..MaxKeywords : batch = [k \in 1..n |-> k]
    /\ username \in BOOLEAN /\ password \in BOOLEAN /\ login = TRUE
    /\ Idle

SpecLogin == InitLogin /\ [][Next]_vars

----------------------------------------------------------------------------
(* Properties of the persistence gateway: SpecStore, SpecJob *)

RowsOf(rs, kid) == SelectSeq(rs, LAMBDA r : r.keyword_id = kid)
StoredIds(rs, kid) == { r.item_id : r \in Range(RowsOf(rs, kid)) }
ResultIds(results) == { results[n].item_id : n \in DOMAIN results } \ {""}
NoRepeatedId(results) ==
    \A m, n \in DOMAIN results :
        results[m].item_id = results[n].item_id /\ results[m].item_id # "" => m = n

\* C1: after any sequence of save_search_results calls, also calls whose list
\* holds one item_id twice, the store holds at most one row for every
\* (keyword_id, item_id) pair.
C1_AtMostOneRowPerItem ==
    \A m, n \in DOMAIN rows :
        rows[m].keyword_id = rows[n].keyword_id /\ rows[m].item_id = rows[n].item_id
            => m = n

\* A step that is one save_search_results call.
SaveStep == call'.op = "save" /\ clock' = clock /\ jobs' = jobs

\* C2: a save_search_results call never changes a stored row; when every
\* item_id of its results is already stored for the keyword it returns 0 and
\* adds no row; and for a result set (no item_id twice) it returns the number
\* of item_ids not yet stored and adds exactly that many rows, so that a store
\* with one row per item_id of the keyword stays so (the count is the number
\* of distinct item_ids, not the sum of the sets' sizes).
C2_SaveIsIdempotent ==
    [][SaveStep =>
        LET kid == call'.kid
            res == call'.results
            new == ResultIds(res) \ StoredIds(rows, kid)
        IN /\ Len(rows') >= Len(rows)
           /\ SubSeq(rows', 1, Len(rows)) = rows
           /\ (new = {} => call'.ret = 0 /\ rows' = rows)
           /\ (NoRepeatedId(res) =>
                 /\ call'.ret = Cardinality(new)
                 /\ Len(rows') = Len(rows) + Cardinality(new)
                 /\ (Len(RowsOf(rows, kid)) = Cardinality(StoredIds(rows, kid))
                       => Len(RowsOf(rows', kid)) = Cardinality(StoredIds(rows', kid))))
    ]_vars

\* C2 witness: item a is stored with title t1; a second set holding a (with
\* another title) and the new item b returned 1 and left a's row as it was.
C2_Witness ==
    /\ call.op = "save"
    /\ call.kid = 1
    /\ call.results = <<RecA2, RecB>>
    /\ call.ret = 1
    /\ rows = <<NewRow(1, RecA), NewRow(1, RecB)>>

\* C9: once a job's status is completed or failed, no call changes it.
C9_StatusMonotonic ==
    [][\A j \in DOMAIN jobs :
          jobs[j].status \in Terminal => jobs'[j].status = jobs[j].status]_vars

\* C10: end_time and execution_time_seconds are unset while the status is
\* in_progress, and once assigned no later call changes them.
C10_EndTimeSetOnce ==
    [][\A j \in DOMAIN jobs :
          /\ jobs'[j].status = "in_progress" =>
                jobs'[j].end_time = None /\ jobs'[j].execution_time_seconds = None
          /\ jobs[j].end_time # None =>
                /\ jobs'[j].end_time = jobs[j].end_time
                /\ jobs'[j].execution_time_seconds = jobs[j].execution_time_seconds
      ]_vars

\* A step that is one update_search_job_status call.
UpdateStep == call'.op = "update" /\ clock' = clock /\ DOMAIN jobs' = DOMAIN jobs

RECURSIVE LogEntries(_)
\* The entries of an error_log: its tokens split at the newline delimiter.
LogEntries(log) ==
    IF log = <<>> THEN <<>>
    ELSE LET cut == IF \E n \in DOMAIN log : log[n] = NL
                       THEN CHOOSE n \in DOMAIN log :
                                log[n] = NL /\ \A m \in 1..(n - 1) : log[m] # NL
                       ELSE Len(log) + 1
         IN <<SubSeq(log, 1, cut - 1)>>
            \o (IF cut >= Len(log) THEN <<>>
                ELSE LogEntries(SubSeq(log, cut + 1, Len(log))))

\* C11: error_log is append-only. A call with a non-empty error adds its text
\* as the last entry after the entries already logged, which stay as they were
\* and in their order, separated by the newline delimiter; a call without an
\* error, and a call for another or an unknown job, leaves error_log unchanged.
C11_ErrorLogAppendOnly ==
    [][UpdateStep =>
        \A j \in DOMAIN jobs :
            LET old == jobs[j].error_log
                new == jobs'[j].error_log
            IN IF j = call'.job /\ call'.error # <<>>
                  THEN /\ LogEntries(new) = Append(LogEntries(old), call'.error)
                       /\ SubSeq(new, 1, Len(old)) = old
                       /\ Len(new) = Len(old) + Len(call'.error)
                                        + (IF old = <<>> THEN 0 ELSE 1)
                  ELSE new = old
    ]_vars

\* C11 witness: after error e1 and then error e2 on the job, its error_log is
\* e1, newline, e2.
C11_Witness ==
    /\ call.op = "update" /\ call.job = 1 /\ call.error = <<"e2">>
    /\ 1 \in DOMAIN jobs
    /\ jobs[1].error_log = <<"e1", NL, "e2">>
    /\ LogEntries(jobs[1].error_log) = << <<"e1">>, <<"e2">> >>

----------------------------------------------------------------------------
(* Properties of the browser session: SpecBrowser *)

Started == browser /\ context
Released == ~playwright /\ ~browser /\ ~context

\* A step that is one start_browser call.
StartStep == call'.op = "start_browser"

\* C13: start_browser called while browser and context are present returns
\* True, launches no browser and leaves playwright, browser, context and
\* user_agent (and is_logged_in) as they were, whatever the steps of a fresh
\* start would have done.
C13_StartIsIdempotent ==
    [][StartStep /\ Started =>
          /\ call'.ret = TRUE
          /\ ~call'.launched
          /\ playwright' = playwright /\ browser' = browser /\ context' = context
          /\ user_agent' = user_agent
          /\ is_logged_in' = is_logged_in
    ]_vars

\* C13 witness: start_browser returned True on a started session without a
\* launch, in an environment where chromium.launch would have raised.
C13_Witness ==
    /\ call.op = "start_browser" /\ call.ret /\ ~call.launched
    /\ call.failed = "launch"
    /\ playwright /\ browser /\ context /\ user_agent # 0

\* A step that is one close_browser call, made directly or by __exit__.
CloseStep == call'.op \in {"close_browser", "exit"}

\* C14: after a close_browser call, the first or a repeated one, also one in
\* which closing the context, the browser or Playwright raised, the three
\* handles are None and is_logged_in is False; leaving a with block, on its
\* success path or by an exception, calls close_browser once.
C14_CloseReleasesAll ==
    [][CloseStep =>
          /\ Released' /\ ~is_logged_in'
          /\ call'.op = "exit" => call'.closes = 1
    ]_vars

\* C15: a start_browser call in which a step fails returns False and leaves
\* none of playwright, browser, context held.
C15_FailedStartHoldsNothing ==
    [][StartStep /\ ~Started /\ call'.failed # "none" =>
          /\ call'.ret = FALSE
          /\ Released'
    ]_vars

\* C23: every page login opens is closed before another page is opened or
\* login returns: no page of the call is left open when it returns, so that a
\* second attempt never opens its page next to the page of the first.
C23_LoginClosesItsPages ==
    call.op = "login" => call.left_open = 0

\* C25: is_logged_in becomes True only in a login call that returns True, and
\* is False after every close_browser call, also one that hit an error while
\* closing.
C25_LoggedInResetOnTeardown ==
    [][/\ (is_logged_in' /\ ~is_logged_in) => (call'.op = "login" /\ call'.ret)
       /\ CloseStep => ~is_logged_in'
    ]_vars

\* C30: start_browser never assigns a handle over one that is still held: it
\* starts Playwright only while self.playwright is None and launches a
\* browser only while self.browser is None, so at most one instance of each
\* is alive, also after calls in which launching or closing raised.
C30_StartNeverOverwritesLive ==
    [][StartStep /\ ~Started =>
          /\ call'.failed # "playwright" => ~playwright
          /\ call'.launched => ~browser
    ]_vars

----------------------------------------------------------------------------
(* Properties of login next to search_keyword: SpecSession *)

----------------------------------------------------------------------------
(* Properties of search_keyword: SpecScraper *)

RECURSIVE Extracted(_)
\* The items extracted by the loads of a call, in load order.
Extracted(ls) == IF ls = <<>> THEN <<>> ELSE Head(ls).items \o Extracted(Tail(ls))

TimeoutLoads == { n \in DOMAIN loads : loads[n].result = "timeout" }

\* C5 as claimed: one call performs at most max_pages page loads.
C5_AtMostMaxPagesLoads == Len(loads) <= max_pages

\* C5 amended: at most max_pages loads that do not end in a navigation
\* timeout, and at most max_pages + 3 loads in all.
C5_LoadsBounded ==
    /\ Len(loads) - Cardinality(TimeoutLoads) <= max_pages
    /\ Len(loads) <= max_pages + MaxRetries

\* C5 witness: a call that has ended after max_pages + 3 loads.
C5_Witness == spc = "returned" /\ Len(loads) = max_pages + MaxRetries

\* C6: a page with zero items, or without an enabled next control, is the last
\* page loaded, and the call returns the items extracted from the loaded
\* pages, concatenated in page order.
C6_StopsAtLastPage ==
    /\ \A n \in DOMAIN loads :
          loads[n].result \in {"zero", "items_last"}
              => n = Len(loads) /\ spc = "returned"
    /\ \A m, n \in DOMAIN loads : m < n => loads[m].page <= loads[n].page
    /\ spc = "returned" =>
          outcome.kind = "returned" /\ outcome.value = Extracted(loads)

\* C6 witness: max_pages = 2, page 1 has items, page 2 has none: the call
\* returned the items of page 1 after two loads.
C6_Witness ==
    /\ spc = "returned"
    /\ max_pages = 2
    /\ Len(loads) = 2
    /\ loads[1].result = "items_next" /\ loads[1].page = 1
    /\ loads[2].result = "zero" /\ loads[2].page = 2
    /\ outcome = Returned(<<RecA, RecB>>)

\* C8: the call raises exactly when a navigation timeout persists after the
\* retries, and returns an empty list when the browser cannot be started, when
\* the first page has no items and when the first page fails with another error.
C8_RaisesOnlyOnTransportFailure ==
    spc = "returned" =>
        /\ outcome.kind = "raised" <=> exit_by = "timeout"
        /\ (\/ exit_by = "nobrowser"
            \/ /\ Len(loads) = 1
               /\ exit_by \in {"zero", "error"}
               /\ loads[1].items = <<>>)
              => outcome = Returned(<<>>)

\* The loads that load again the page of the load before them.
Reloads == { n \in DOMAIN loads : n > 1 /\ loads[n].page = loads[n - 1].page }

\* C21: within one call a page is loaded again only after a navigation
\* timeout, at most 3 times per call; a load that ends in any other exception
\* is the last load of the call; and every call that has begun returns.
C21_OnlyTimeoutsRetriedBounded ==
    /\ [](/\ \A n \in Reloads : loads[n - 1].result = "timeout"
          /\ Cardinality(Reloads) <= MaxRetries
          /\ \A n \in DOMAIN loads :
                loads[n].result \in {"error", "items_error"}
                    => n = Len(loads) /\ spc = "returned")
    /\ (spc \in {"loop", "page"} ~> spc = "returned")

\* C21 witness: with max_pages = 2, page 1 timed out once and was loaded
\* again, and page 2 ended in another exception: the call returned the items
\* of page 1 after three loads.
C21_Witness ==
    /\ spc = "returned" /\ max_pages = 2
    /\ Len(loads) = 3
    /\ loads[1].result = "timeout" /\ loads[1].page = 1
    /\ loads[2].result = "items_next" /\ loads[2].page = 1
    /\ loads[3].result = "error" /\ loads[3].page = 2
    /\ exit_by = "error"

\* C22: between two consecutive page loads of one call a wait step occurs:
\* every load but the last of the call is followed by a sleep, be the next
\* load the next page or the same page again after a timeout.
C22_WaitBetweenLoads ==
    \A n \in DOMAIN loads : n > 1 => loads[n - 1].waited

----------------------------------------------------------------------------
(* Properties of _extract_items_data: SpecExtract *)

\* C19: every record _extract_items_data returns has an item_id, and the
\* records are those of the listings that are no ad and whose link matches
\* /itm/<digits>: a node without link or with another URL gives no record.
C19_EveryRecordHasItemId ==
    call.op = "extract" =>
        /\ \A n \in DOMAIN call.ret : call.ret[n].item_id # ""
        /\ Len(call.ret) =
              Cardinality({ n \in DOMAIN call.nodes :
                              ~call.nodes[n].ad /\ call.nodes[n].link \in ItemIds })

\* C26: a field of a listing that cannot be read leaves that field unset and
\* nothing else: every listing that is no ad and has an item_id is returned,
\* also one whose title could not be read, and the listings after it are
\* processed.
C26_FieldFailureKeepsListing ==
    call.op = "extract" =>
        Cardinality({ n \in DOMAIN call.ret : call.ret[n].item_id # "" })
            = Cardinality({ n \in DOMAIN call.nodes :
                              ~call.nodes[n].ad /\ call.nodes[n].link \in ItemIds })

\* C27: the lookup of the listing nodes has two tiers: the results container
\* is looked up first, and the page-wide query runs only when the page has
\* no such container.
C27_TwoTierLookup ==
    call.op = "extract" =>
        /\ \E n \in DOMAIN call.queries : call.queries[n] = "ul.srp-results.srp-list"
        /\ call.container =>
               \A n \in DOMAIN call.queries : call.queries[n] # "li.s-item"

\* C29: every row stored while the command runs job J has search_job_id J,
\* and the export at the end of the run returns exactly the rows stored
\* during the run.
C29_ExportReturnsRunRecords ==
    /\ cpc # "idle" => \A n \in DOMAIN rows : rows[n].search_job_id = Some(job_id)
    /\ call.op = "export" => call.ret = rows

----------------------------------------------------------------------------
(* Properties of concurrent save_search_results calls: SpecConcurrent *)

CommitStep(c) ==
    sessions[c].pc = "checked" /\ sessions'[c].pc = "committed"

\* Rows of `stored` with the pair (kid, item_id)
PairRows(stored, kid, item_id) ==
    { n \in DOMAIN stored : stored[n].keyword_id = kid /\ stored[n].item_id = item_id }

\* C28: the existence check and the insert are separate steps and the schema
\* has no uniqueness constraint on (keyword_id, item_id): a commit stores
\* every row that passed the session's check, whatever other sessions have
\* committed since.
C28_CheckThenInsertNotAtomic ==
    [][\A c \in Callers :
          CommitStep(c) => rows' = rows \o sessions[c].pending]_vars

\* Both callers passed the check for the same pair before either committed,
\* and both committed: the pair is stored twice.
C28_Witness ==
    /\ \A c \in Callers : sessions[c].pc = "committed" /\ sessions[c].seen = 0
    /\ sessions[1].kid = sessions[2].kid
    /\ \E r1 \in Range(sessions[1].pending), r2 \in Range(sessions[2].pending) :
          /\ r1.item_id = r2.item_id
          /\ Cardinality(PairRows(rows, r1.keyword_id, r1.item_id)) >= 2

----------------------------------------------------------------------------
(* Properties of the search command: Spec *)

Completed == cpc = "done" /\ jobs[job_id].status = "completed"

\* C3: for a job the command has completed, processed = successful + failed.
C3_ProcessedIsSuccessfulPlusFailed ==
    Completed =>
        jobs[job_id].processed_keywords =
            jobs[job_id].successful_keywords + jobs[job_id].failed_keywords

\* C4: for a job the command has completed, processed = total_keywords.
C4_ProcessedIsTotal ==
    Completed => jobs[job_id].processed_keywords = jobs[job_id].total_keywords

\* C7: a keyword whose every page load ended in a navigation timeout, past the
\* retry bound, is recorded as failed: the failed count is positive and the
\* error_log names the keyword.
C7_TransportFailureRecorded ==
    \A p \in DOMAIN attempts :
        attempts[p].transport_exhausted =>
            /\ jobs[job_id].failed_keywords >= 1
            /\ KeywordText[batch[p]] \in Range(jobs[job_id].error_log)

Ended == cpc \in {"done", "aborted"}

\* C16: a failure while one keyword is handled never aborts the batch: when
\* the command has ended every keyword of the batch has been attempted, and
\* every attempt that failed is recorded on the job, in the failed count and
\* with the keyword's failure text in error_log.
C16_FailureNeverAborts ==
    /\ Ended => Len(attempts) = Len(batch)
    /\ \A p \in DOMAIN attempts :
          attempts[p].result = "failed" =>
              /\ jobs[job_id].failed_keywords >= 1
              /\ KeywordText[batch[p]] \in Range(jobs[job_id].error_log)

\* C17: the job the command created is completed once the command has ended,
\* however many keywords failed; it is never left in_progress.
C17_JobCompletedAtEnd ==
    Ended => jobs[job_id].status = "completed"

\* C18: a keyword the command has attempted has its status set on the Keyword
\* entity: failed when the attempt failed, completed otherwise.
C18_KeywordStatusUpdated ==
    \A p \in DOMAIN attempts :
        kwtab[batch[p]].status =
            (IF attempts[p].result = "failed" THEN "failed" ELSE "completed")

AttemptsWith(result) == { p \in DOMAIN attempts : attempts[p].result = result }

\* C20: at every point of a run that has not been aborted, the job's
\* successful_keywords is the number of keywords attempted so far whose results
\* were saved, and failed_keywords the number whose attempt failed.
C20_CountersCountAttempts ==
    job_id \in DOMAIN jobs /\ cpc # "aborted" =>
        /\ jobs[job_id].successful_keywords = Cardinality(AttemptsWith("success"))
        /\ jobs[job_id].failed_keywords = Cardinality(AttemptsWith("failed"))

\* The step of the command that calls scraper.login().
LoginStep == cpc = "entered" /\ cpc' # "entered" /\ login

NoCredentials == ~username \/ ~password

\* C12: with --login and no username or no password configured, login()
\* returns False without raising, launches no browser, opens no page and
\* leaves the handles, the user agent and is_logged_in as they were; the
\* command goes on to its batch: it creates the job, attempts every keyword of
\* the batch before it finishes, and is never logged in during the run.
C12_NoCredentialsLoginSkipped ==
    /\ [][LoginStep /\ NoCredentials =>
            /\ call'.op = "login"
            /\ call'.ret = FALSE /\ ~call'.raised
            /\ call'.pages = 0 /\ call'.tries = 0 /\ ~call'.launched
            /\ playwright' = playwright /\ browser' = browser /\ context' = context
            /\ user_agent' = user_agent
            /\ is_logged_in' = is_logged_in
            /\ cpc' = "loop" /\ idx' = 0
            /\ jobs'[job_id'].total_keywords = Len(batch)
         ]_vars
    /\ [](login /\ NoCredentials =>
            /\ ~is_logged_in
            /\ cpc # "exited"
            /\ cpc = "done" => Len(attempts) = Len(batch))

\* C12 witness: the command was run with --login and a username but no
\* password, and has finished after an attempt on each of its two keywords.
C12_Witness ==
    /\ login /\ username /\ ~password
    /\ call.op = "login" /\ call.ret = FALSE
    /\ cpc = "done"
    /\ Len(batch) = 2 /\ Len(attempts) = 2
    /\ ~is_logged_in

====
